---- MODULE Spec2Model ----
(***************************************************************************)
(* A model of the quiz application (app.py): the register, submit-quiz,    *)
(* delete-participant, add-question and questions handlers over the        *)
(* relational store (Participant, Result, Answer) and the question bank    *)
(* document.                                                               *)
(***************************************************************************)
EXTENDS Integers, Sequences, FiniteSets, TLC

VARIABLES
    participants,   \* rows of the Participant table
    results,        \* rows of the Result table
    answers,        \* rows of the Answer table, in insertion order
    nextPid,        \* next primary key of the Participant table
    nextRid,        \* next primary key of the Result table
    bank,           \* the questions.json document: a sequence of questions
    torn,           \* the questions.json file holds no complete document (it is being rewritten)
    last,           \* the last request handled to completion and its response
    prev,           \* history: a summary of the request handled before `last`
    served,         \* history: regnos with a successful register or submit, not deleted since
    req,            \* per worker thread: the request in flight and its position
    sel,            \* the response of the last /questions request
    board           \* the response of the last ranking request

vars == <<participants, results, answers, nextPid, nextRid, bank, torn, last, prev, served, req, sel, board>>

-----------------------------------------------------------------------------
(* Bounds of the model *)

MaxPid == 2         \* participant ids handed out in one behaviour
MaxBatch == 2       \* items in a submitted answer batch
MaxBank == 3        \* bank length up to which add-question is explored
MaxSelBank == 16    \* bank length explored for the /questions selector
SelBase == 13       \* length of the long bank the selector runs start from
MaxRank == 11       \* participants registered in the ranking runs

(* Program constants *)

SplitAt == 15       \* qs[:15] / qs[15:]
PointsPerCorrect == 2
TopLimit == 10      \* .limit(10)

-----------------------------------------------------------------------------
(* JSON values of a request payload or of the bank document.  A value is a *)
(* record [t, v]: t is its JSON/Python type, v an integer payload.         *)
(*   int n      the integer n                                              *)
(*   numstr n   the string holding the decimal digits of n, e.g. "1"       *)
(*   str        a string that is not a number, e.g. "abc"                  *)
(*   float n    the float n + 0.5                                          *)
(*   bool n     JSON true (n = 1) or false (n = 0): a Python bool, which   *)
(*              is an int                                                  *)
(*   null       JSON null (None)                                           *)
(*   missing    the key is absent from the object                          *)

I(n) == [t |-> "int", v |-> n]
NumStr(n) == [t |-> "numstr", v |-> n]
Abc == [t |-> "str", v |-> 0]
F(n) == [t |-> "float", v |-> n]
Bool(n) == [t |-> "bool", v |-> n]
Null == [t |-> "null", v |-> 0]
Missing == [t |-> "missing", v |-> 0]

\* dict.get(key, default): the default only when the key is absent
DictGet(val, default) == IF val.t = "missing" THEN default ELSE val

\* int(x) raises ValueError / TypeError
IntRaises(val) == val.t \notin {"int", "numstr", "float", "bool"}

\* int(x) when it does not raise: a float is truncated towards zero
IntOf(val) ==
    IF val.t = "float" THEN (IF val.v >= 0 THEN val.v ELSE val.v + 1) ELSE val.v

\* isinstance(x, (int, float))
IsNumber(val) == val.t \in {"int", "float", "bool"}

\* isinstance(x, int)
IsInt(val) == val.t \in {"int", "bool"}

\* twice the numeric value of an int or float (keeps the halves integral)
Twice(val) == IF val.t = "float" THEN 2 * val.v + 1 ELSE 2 * val.v

\* str.strip() on the strings the requests carry
Strip(s) ==
    CASE s = " r1 " -> "r1"
      [] s = "  " -> ""
      [] OTHER -> s

-----------------------------------------------------------------------------
(* Rationals, for avg_time = total_time / time_counts *)

Abs(n) == IF n < 0 THEN -n ELSE n

RECURSIVE Gcd(_, _)
Gcd(a, b) == IF b = 0 THEN a ELSE Gcd(b, a % b)

\* the fraction n/d (d > 0) in lowest terms
Frac(n, d) ==
    LET g == Gcd(Abs(n), d)
    IN  [n |-> n \div g, d |-> d \div g]

Zero == Frac(0, 1)

-----------------------------------------------------------------------------
(* Grading: the loop of submit_quiz over the answer items *)

\* (a variant that skips an item without qId)
GradeItemSkipMissing(questions, ans, i, acc) ==
    LET qidRaw == DictGet(ans.qId, Null)
    IN  IF IntRaises(qidRaw) THEN acc
        ELSE LET qid == IntOf(qidRaw)
             IN  IF ~(0 <= qid /\ qid < Len(questions)) THEN acc
                 ELSE LET selRaw == DictGet(ans.selected, Null)
                      IN  IF IntRaises(selRaw) THEN acc
                          ELSE LET selected == IntOf(selRaw)
                                   time_sec == DictGet(ans.time_sec, Null)
                                   timed == IsNumber(time_sec)
                                   correct_answer == DictGet(questions[qid + 1].answer, Null)
                                   hit == IsInt(correct_answer) /\ selected = correct_answer.v
                               IN  [correct |-> acc.correct + (IF hit THEN 1 ELSE 0),
                                    total_time |-> acc.total_time + (IF timed THEN Twice(time_sec) ELSE 0),
                                    time_counts |-> acc.time_counts + (IF timed THEN 1 ELSE 0)]

\* (a variant that adds the time of an item before it looks at its selected)
GradeItemTimeFirst(questions, ans, i, acc) ==
    LET qidRaw == DictGet(ans.qId, I(i))
    IN  IF IntRaises(qidRaw) THEN acc
        ELSE LET qid == IntOf(qidRaw)
             IN  IF ~(0 <= qid /\ qid < Len(questions)) THEN acc
                 ELSE LET selRaw == DictGet(ans.selected, Null)
                          time_sec == DictGet(ans.time_sec, Null)
                          timed == IsNumber(time_sec)
                          correct_answer == DictGet(questions[qid + 1].answer, Null)
                          hit == /\ ~IntRaises(selRaw) /\ IsInt(correct_answer)
                                 /\ IntOf(selRaw) = correct_answer.v
                      IN  [correct |-> acc.correct + (IF hit THEN 1 ELSE 0),
                           total_time |-> acc.total_time + (IF timed THEN Twice(time_sec) ELSE 0),
                           time_counts |-> acc.time_counts + (IF timed THEN 1 ELSE 0)]

\* (a variant without the isinstance(correct_answer, int) test)
GradeItemAnyAnswer(questions, ans, i, acc) ==
    LET qidRaw == DictGet(ans.qId, I(i))
    IN  IF IntRaises(qidRaw) THEN acc
        ELSE LET qid == IntOf(qidRaw)
             IN  IF ~(0 <= qid /\ qid < Len(questions)) THEN acc
                 ELSE LET selRaw == DictGet(ans.selected, Null)
                      IN  IF IntRaises(selRaw) THEN acc
                          ELSE LET selected == IntOf(selRaw)
                                   time_sec == DictGet(ans.time_sec, Null)
                                   timed == IsNumber(time_sec)
                                   correct_answer == DictGet(questions[qid + 1].answer, Null)
                                   hit == selected = correct_answer.v
                               IN  [correct |-> acc.correct + (IF hit THEN 1 ELSE 0),
                                    total_time |-> acc.total_time + (IF timed THEN Twice(time_sec) ELSE 0),
                                    time_counts |-> acc.time_counts + (IF timed THEN 1 ELSE 0)]

\* one iteration of the loop body on item ans at 0-based position i; total_time
\* is kept in half seconds
GradeItem(questions, ans, i, acc) ==
    LET qidRaw == DictGet(ans.qId, I(i))
    IN  IF IntRaises(qidRaw) THEN acc
        ELSE LET qid == IntOf(qidRaw)
             IN  IF ~(0 <= qid /\ qid < Len(questions)) THEN acc
                 ELSE LET selRaw == DictGet(ans.selected, Null)
                      IN  IF IntRaises(selRaw) THEN acc
                          ELSE LET selected == IntOf(selRaw)
                                   time_sec == DictGet(ans.time_sec, Null)
                                   timed == IsNumber(time_sec)
                                   correct_answer == DictGet(questions[qid + 1].answer, Null)
                                   hit == IsInt(correct_answer) /\ selected = correct_answer.v
                               IN  [correct |-> acc.correct + (IF hit THEN 1 ELSE 0),
                                    total_time |-> acc.total_time + (IF timed THEN Twice(time_sec) ELSE 0),
                                    time_counts |-> acc.time_counts + (IF timed THEN 1 ELSE 0)]

RECURSIVE GradeLoop(_, _, _, _)
GradeLoop(questions, batch, i, acc) ==
    IF i >= Len(batch) THEN acc
    ELSE GradeLoop(questions, batch, i + 1, GradeItem(questions, batch[i + 1], i, acc))

\* (a variant that adds the weight instead of multiplying by it)
PointsAdded(correct) == correct + PointsPerCorrect

Points(correct) == correct * PointsPerCorrect

AvgTime(total_time, time_counts) ==
    IF time_counts # 0 THEN Frac(total_time, 2 * time_counts) ELSE Zero

\* the three aggregates submit_quiz stores
Grade(questions, batch) ==
    LET acc == GradeLoop(questions, batch, 0, [correct |-> 0, total_time |-> 0, time_counts |-> 0])
    IN  [correct |-> acc.correct,
         points |-> Points(acc.correct),
         avg_time |-> AvgTime(acc.total_time, acc.time_counts)]

-----------------------------------------------------------------------------
(* The relational store.  A table is a set of rows with an integer primary *)
(* key; the Answer table is kept as a sequence, in insertion order, since  *)
(* nothing refers to an Answer row's key.  db is the record of the tables. *)

DB == [participants |-> participants, results |-> results, answers |-> answers,
       nextPid |-> nextPid, nextRid |-> nextRid]

\* the row with the smallest primary key
FirstRow(rows) == CHOOSE r \in rows : \A o \in rows : r.id <= o.id

\* Participant.select().where(Participant.regno == regno)
ParticipantsByRegno(db, regno) == {p \in db.participants : p.regno = regno}

\* Participant.create(...): the regno column is unique, a second row with the
\* same regno raises IntegrityError and inserts nothing
ParticipantCreate(db, name, regno, college, dept, year) ==
    IF ParticipantsByRegno(db, regno) # {}
    THEN [raised |-> TRUE, id |-> 0, db |-> db]
    ELSE [raised |-> FALSE, id |-> db.nextPid,
          db |-> [db EXCEPT
                    !.participants = @ \cup {[id |-> db.nextPid, name |-> name, regno |-> regno,
                                               college |-> college, dept |-> dept, year |-> year]},
                    !.nextPid = @ + 1]]

\* Result.select().where(Result.participant == pid)
ResultsOf(db, pid) == {r \in db.results : r.participant = pid}

\* Result.get_or_create(participant=p, defaults=...): the existing row
\* untouched, or a new row holding the defaults
ResultGetOrCreate(db, pid, defaults) ==
    IF ResultsOf(db, pid) # {}
    THEN [row |-> FirstRow(ResultsOf(db, pid)), created |-> FALSE, db |-> db]
    ELSE LET row == [id |-> db.nextRid, participant |-> pid, correct |-> defaults.correct,
                     points |-> defaults.points, avg_time |-> defaults.avg_time]
         IN  [row |-> row, created |-> TRUE,
              db |-> [db EXCEPT !.results = @ \cup {row}, !.nextRid = @ + 1]]

\* r.save(): the row with r's key now holds r's fields
ResultSave(db, row) ==
    [db EXCEPT !.results = {r \in @ : r.id # row.id} \cup {row}]

\* Answer.delete().where(Answer.result == r).execute()
AnswerDeleteWhere(db, rid) ==
    [db EXCEPT !.answers = SelectSeq(@, LAMBDA a : a.result # rid)]

\* Answer.insert_many(rows).execute()
AnswerInsertMany(db, rows) == [db EXCEPT !.answers = @ \o rows]

\* (a variant that deletes the participant's row only)
DeleteInstanceOnly(db, p) == [db EXCEPT !.participants = {o \in @ : o.id # p.id}]

\* p.delete_instance(recursive=True): the rows that depend on p, then p
DeleteInstanceRecursive(db, p) ==
    LET rids == {r.id : r \in ResultsOf(db, p.id)}
    IN  [db EXCEPT
           !.answers = SelectSeq(@, LAMBDA a : a.result \notin rids),
           !.results = {r \in @ : r.participant # p.id},
           !.participants = {o \in @ : o.id # p.id}]

\* the statements p.delete_instance(recursive=True) executes one after the
\* other, each committed on its own: the Answer rows that depend on the
\* participant's Results, then the Results, then the participant's row
DeleteDependentAnswers(db, pid) ==
    LET rids == {r.id : r \in ResultsOf(db, pid)}
    IN  [db EXCEPT !.answers = SelectSeq(@, LAMBDA a : a.result \notin rids)]

DeleteDependentResults(db, pid) == [db EXCEPT !.results = {r \in @ : r.participant # pid}]

DeleteParticipantRow(db, pid) == [db EXCEPT !.participants = {o \in @ : o.id # pid}]

\* the Answer rows of Result rid, in insertion order
AnswersOf(db, rid) == SelectSeq(db.answers, LAMBDA a : a.result = rid)

-----------------------------------------------------------------------------
(* POST /register *)

\* str(data.get("year", "")).strip() is empty
YearEmpty(year) == year.t = "missing"

\* int(year_raw) raises ValueError
YearRaises(year) == year.t \notin {"int", "numstr"}

\* the request up to the lookup: 400 on a missing field or a bad year, 409 when
\* the regno is taken, 0 to go on
RegisterCheck(db, data) ==
    IF Strip(data.name) = "" \/ Strip(data.regno) = "" \/ Strip(data.college) = ""
       \/ Strip(data.department) = "" \/ YearEmpty(data.year)
    THEN 400
    ELSE IF YearRaises(data.year) THEN 400
    ELSE IF ParticipantsByRegno(db, Strip(data.regno)) # {} THEN 409
    ELSE 0

\* (a variant without the except IntegrityError clause: the outer handler
\* answers 500)
RegisterCreateUncaught(db, data) ==
    LET c == ParticipantCreate(db, Strip(data.name), Strip(data.regno), Strip(data.college),
                               Strip(data.department), data.year.v)
    IN  [status |-> IF c.raised THEN 500 ELSE 0, id |-> c.id, db |-> c.db]

\* Participant.create inside try / except IntegrityError
RegisterCreate(db, data) ==
    LET c == ParticipantCreate(db, Strip(data.name), Strip(data.regno), Strip(data.college),
                               Strip(data.department), data.year.v)
    IN  [status |-> IF c.raised THEN 409 ELSE 0, id |-> c.id, db |-> c.db]

\* Result.get_or_create with zeroed defaults, then the success response
RegisterResult(db, pid) ==
    LET r == ResultGetOrCreate(db, pid, [correct |-> 0, points |-> 0, avg_time |-> Zero])
    IN  [status |-> 200, db |-> r.db]

\* (a variant that updates the existing participant when the regno is taken)
register_upsert(db, data) ==
    LET chk == RegisterCheck(db, data)
    IN  IF chk = 409
        THEN [status |-> 200,
              db |-> [db EXCEPT !.participants =
                        {IF p.regno = Strip(data.regno) THEN [p EXCEPT !.name = Strip(data.name)] ELSE p
                            : p \in @}]]
        ELSE IF chk # 0 THEN [status |-> chk, db |-> db]
        ELSE LET c == RegisterCreate(db, data)
             IN  IF c.status # 0 THEN [status |-> c.status, db |-> c.db]
                 ELSE RegisterResult(c.db, c.id)

\* the whole handler
register(db, data) ==
    LET chk == RegisterCheck(db, data)
    IN  IF chk # 0 THEN [status |-> chk, db |-> db]
        ELSE LET c == RegisterCreate(db, data)
             IN  IF c.status # 0 THEN [status |-> c.status, db |-> c.db]
                 ELSE RegisterResult(c.db, c.id)

-----------------------------------------------------------------------------
(* POST /submit-quiz *)

\* (a variant that answers 404 for an unknown regno)
SubmitCheckNotFound(db, payload) ==
    IF Strip(payload.regno) = "" THEN 400
    ELSE IF ParticipantsByRegno(db, Strip(payload.regno)) = {} THEN 404
    ELSE 0

\* the request up to Participant.get: 400 on no data, no regno or no such
\* participant, 0 to go on
SubmitCheck(db, payload) ==
    IF Strip(payload.regno) = "" THEN 400
    ELSE IF ParticipantsByRegno(db, Strip(payload.regno)) = {} THEN 400
    ELSE 0

\* (a variant that overwrites the aggregates only when the score is higher)
SubmitUpsertKeepBest(db, pid, agg) ==
    LET g == ResultGetOrCreate(db, pid, agg)
        row == IF agg.correct > g.row.correct
               THEN [g.row EXCEPT !.correct = agg.correct, !.points = agg.points,
                                  !.avg_time = agg.avg_time]
               ELSE g.row
    IN  [rid |-> row.id, db |-> ResultSave(g.db, row)]

\* (a variant that calls Result.create instead of get_or_create)
SubmitUpsertCreate(db, pid, agg) ==
    LET row == [id |-> db.nextRid, participant |-> pid, correct |-> agg.correct,
                points |-> agg.points, avg_time |-> agg.avg_time]
    IN  [rid |-> row.id, db |-> [db EXCEPT !.results = @ \cup {row}, !.nextRid = @ + 1]]

\* Result.get_or_create, then the three aggregates overwritten and saved
SubmitUpsert(db, pid, agg) ==
    LET g == ResultGetOrCreate(db, pid, agg)
        row == [g.row EXCEPT !.correct = agg.correct, !.points = agg.points,
                             !.avg_time = agg.avg_time]
    IN  [rid |-> row.id, db |-> ResultSave(g.db, row)]

\* (a variant that builds rows only for the items whose qId is a number)
AnswerRowsScoredOnly(rid, batch) ==
    LET kept == SelectSeq(batch, LAMBDA ans : ~IntRaises(ans.qId))
    IN  [k \in 1..Len(kept) |->
            [result |-> rid,
             question_id |-> DictGet(kept[k].qId, Null),
             answer |-> DictGet(kept[k].selected, Null),
             time_taken |-> DictGet(kept[k].time_sec, Null)]]

\* the rows built for insert_many: ans.get(key) is None for an absent key
AnswerRows(rid, batch) ==
    [k \in 1..Len(batch) |->
        [result |-> rid,
         question_id |-> DictGet(batch[k].qId, Null),
         answer |-> DictGet(batch[k].selected, Null),
         time_taken |-> DictGet(batch[k].time_sec, Null)]]

\* (a variant that inserts without deleting the previous rows)
SubmitAppendAnswers(db, rid, batch) ==
    IF batch # <<>> THEN AnswerInsertMany(db, AnswerRows(rid, batch)) ELSE db

\* the previous Answer rows of the Result deleted, the batch's rows inserted
SubmitReplaceAnswers(db, rid, batch) ==
    LET cleared == AnswerDeleteWhere(db, rid)
    IN  IF batch # <<>> THEN AnswerInsertMany(cleared, AnswerRows(rid, batch)) ELSE cleared

\* (a variant that stores the name of the payload on the participant)
submit_quiz_renaming(db, questions, payload) ==
    LET chk == SubmitCheck(db, payload)
    IN  IF chk # 0 THEN [status |-> chk, db |-> db]
        ELSE LET p == FirstRow(ParticipantsByRegno(db, Strip(payload.regno)))
                 agg == Grade(questions, payload.answers)
                 u == SubmitUpsert(db, p.id, agg)
                 named == [u.db EXCEPT !.participants =
                              {IF o.id = p.id THEN [o EXCEPT !.name = Strip(payload.name)] ELSE o
                                  : o \in @}]
             IN  [status |-> 200, db |-> SubmitReplaceAnswers(named, u.rid, payload.answers)]

\* the whole handler
submit_quiz(db, questions, payload) ==
    LET chk == SubmitCheck(db, payload)
    IN  IF chk # 0 THEN [status |-> chk, db |-> db]
        ELSE LET p == FirstRow(ParticipantsByRegno(db, Strip(payload.regno)))
                 agg == Grade(questions, payload.answers)
                 u == SubmitUpsert(db, p.id, agg)
             IN  [status |-> 200, db |-> SubmitReplaceAnswers(u.db, u.rid, payload.answers)]

-----------------------------------------------------------------------------
(* POST /admin/api/delete-participant *)

admin_api_delete_participant(db, payload) ==
    IF Strip(payload.regno) = "" THEN [status |-> 400, db |-> db]
    ELSE IF ParticipantsByRegno(db, Strip(payload.regno)) = {} THEN [status |-> 404, db |-> db]
    ELSE [status |-> 200,
          db |-> DeleteInstanceRecursive(db, FirstRow(ParticipantsByRegno(db, Strip(payload.regno))))]

-----------------------------------------------------------------------------
(* The questions.json file.  doc is the document the file holds; unreadable *)
(* tells that the file holds no complete document: open(.., "w") has        *)
(* emptied it and json.dump has not written it yet, or the bytes of a       *)
(* shorter document lie over those of a longer one.                         *)

\* json.load(f): raises on a file that holds no complete document
JsonLoad(doc, unreadable) ==
    [raised |-> unreadable, value |-> IF unreadable THEN <<>> ELSE doc]

\* the file after json.dump(questions, f) and close, by a request that opened
\* it when it held held.doc: the bytes of questions from offset 0.  They
\* replace an emptied file; over a document another request wrote meanwhile
\* they leave that document's tail when it is longer (every question of the
\* runs takes the same number of bytes)
JsonDump(held, questions) ==
    IF ~held.unreadable /\ Len(held.doc) > Len(questions)
    THEN [doc |-> <<>>, unreadable |-> TRUE]
    ELSE [doc |-> questions, unreadable |-> FALSE]

-----------------------------------------------------------------------------
(* POST /admin/api/add-question.  data.options is [isList, items]: whether *)
(* the JSON value is a list, and its items.                                *)

AddQuestionCheck(data) ==
    IF Strip(data.question) = "" THEN 400
    ELSE IF ~data.options.isList \/ Len(data.options.items) < 2 THEN 400
    ELSE IF ~IsInt(data.answer) \/ ~(0 <= data.answer.v /\ data.answer.v < Len(data.options.items))
         THEN 400
    ELSE 0

\* (a variant that inserts the question in front)
PrependQuestion(questions, data) ==
    <<[question |-> Strip(data.question), options |-> data.options.items,
       answer |-> data.answer]>> \o questions

\* questions.append({...})
AppendQuestion(questions, data) ==
    Append(questions, [question |-> Strip(data.question), options |-> data.options.items,
                       answer |-> data.answer])

admin_api_add_question(questions, data) ==
    LET chk == AddQuestionCheck(data)
    IN  IF chk # 0 THEN [status |-> chk, bank |-> questions, count |-> 0]
        ELSE [status |-> 200, bank |-> AppendQuestion(questions, data),
              count |-> Len(AppendQuestion(questions, data))]

-----------------------------------------------------------------------------
(* GET /questions *)

\* qs.index(q): the 0-based position of the first element equal to q
ListIndex(qs, q) == (CHOOSE k \in 1..Len(qs) : qs[k] = q /\ \A j \in 1..(k - 1) : qs[j] # q) - 1

\* qs[:15]
SetA(qs) == SubSeq(qs, 1, IF Len(qs) < SplitAt THEN Len(qs) ELSE SplitAt)

\* qs[15:]
SetB(qs) == SubSeq(qs, SplitAt + 1, Len(qs))

\* the response when random.choice picks set a (half = "a") or set b
get_questions(qs, half) ==
    LET chosen_set == IF half = "a" THEN SetA(qs) ELSE SetB(qs)
    IN  [k \in 1..Len(chosen_set) |->
            [id |-> ListIndex(qs, chosen_set[k]),
             question |-> chosen_set[k].question,
             options |-> chosen_set[k].options]]

-----------------------------------------------------------------------------
(* The ranking queries: /api/leaderboard, /admin/api/top and                *)
(* /admin/api/export-leaderboard                                            *)

\* Result.select(Result, Participant).join(Participant): a row per Result
\* whose participant exists
JoinRows(db) ==
    {x \in {[r |-> r, p |-> p] : r \in db.results, p \in db.participants} : x.r.participant = x.p.id}

FracLess(a, b) == a.n * b.d < b.n * a.d

\* (a variant that orders by avg_time descending)
BeforeSlowFirst(x, y) ==
    \/ x.r.points > y.r.points
    \/ x.r.points = y.r.points /\ FracLess(y.r.avg_time, x.r.avg_time)

\* order_by(Result.points.desc(), Result.avg_time.asc()): x sorts before y
Before(x, y) ==
    \/ x.r.points > y.r.points
    \/ x.r.points = y.r.points /\ FracLess(x.r.avg_time, y.r.avg_time)

\* the order the store returns rows in when both keys tie is not fixed by the
\* query: it is the order of a scan, here by ascending or by descending key
ScansFirst(x, y, scan) == IF scan = "asc" THEN x.r.id < y.r.id ELSE x.r.id > y.r.id

\* y comes out of the query ahead of x
Ahead(y, x, scan) == Before(y, x) \/ (~Before(x, y) /\ ScansFirst(y, x, scan))

\* the rows of the query in the order the store returns them: each row at
\* the place after the rows that come out ahead of it
OrderBy(rows, scan) ==
    LET all == rows
        place == [x \in all |-> Cardinality({y \in all : Ahead(y, x, scan)}) + 1]
    IN  [k \in 1..Cardinality(all) |-> CHOOSE x \in all : place[x] = k]

\* .limit(n)
Limit(rows, n) == SubSeq(rows, 1, IF Len(rows) < n THEN Len(rows) ELSE n)

\* round(float(avg_time), 2), in hundredths: the nearest hundredth (no stored
\* average lies halfway between two hundredths)
Round2(f) == (200 * f.n + f.d) \div (2 * f.d)

Entry(x) ==
    [name |-> x.p.name, regno |-> x.p.regno, correct |-> x.r.correct,
     points |-> x.r.points, avg_time |-> Round2(x.r.avg_time)]

\* for i, r in enumerate(rows): the entry of r with "rank": i + 1
Ranked(rows) ==
    [k \in 1..Len(rows) |->
        [rank |-> (k - 1) + 1, name |-> rows[k].p.name, regno |-> rows[k].p.regno,
         correct |-> rows[k].r.correct, points |-> rows[k].r.points,
         avg_time |-> Round2(rows[k].r.avg_time)]]

leaderboard_api(db, scan) ==
    LET rows == OrderBy(JoinRows(db), scan)
    IN  [header |-> <<>>, rows |-> [k \in 1..Len(rows) |-> Entry(rows[k])]]

\* (a variant that cuts the rows before it orders them)
admin_api_top_cut_first(db, scan) ==
    LET rows == OrderBy({x \in JoinRows(db) : x.r.id <= TopLimit}, scan)
    IN  [header |-> <<>>, rows |-> Ranked(rows)]

admin_api_top(db, scan) ==
    LET rows == Limit(OrderBy(JoinRows(db), scan), TopLimit)
    IN  [header |-> <<>>, rows |-> Ranked(rows)]

admin_api_export_leaderboard(db, scan) ==
    LET rows == OrderBy(JoinRows(db), scan)
    IN  [header |-> <<"rank", "name", "regno", "correct", "points", "avg_time">>,
         rows |-> Ranked(rows)]

-----------------------------------------------------------------------------
(* Inputs *)

Threads == {"t1", "t2"}

\* bank entries: Q1 and Q2 are the bank of test_scoring_logic, Q3 stores an
\* answer that is not an integer
Q1 == [question |-> "Q1", options |-> <<"A", "B">>, answer |-> I(0)]
Q2 == [question |-> "Q2", options |-> <<"A", "B">>, answer |-> I(1)]
Q3 == [question |-> "Q3", options |-> <<"A", "B">>, answer |-> Abc]

Texts == <<"T1", "T2", "T3", "T4", "T5", "T6", "T7", "T8", "T9", "T10",
           "T11", "T12", "T13", "T14", "T15", "T16", "T17", "T18", "T19", "T20">>

\* a bank of n pairwise different questions
DistinctBank(n) ==
    [k \in 1..n |-> [question |-> Texts[k], options |-> <<"A", "B">>, answer |-> I(k % 2)]]

Item(q, s, t) == [qId |-> q, selected |-> s, time_sec |-> t]

A1 == Item(I(0), I(0), I(10))             \* question 0, option 0
A2 == Item(I(1), I(1), I(15))             \* question 1, option 1
A3 == Item(Missing, F(1), I(-5))          \* no qId, selected 1.5, a negative time
A4 == Item(I(-1), I(1), Missing)          \* negative qId, no time
A5 == Item(Abc, I(1), I(10))              \* qId is not a number
A6 == Item(NumStr(1), Abc, NumStr(10))    \* qId "1", selected is not a number, time "10"

Items == {A1, A2, A3, A4, A5, A6}

\* the answer batches of at most MaxBatch items
Batches(items) == UNION {[1..k -> items] : k \in 0..MaxBatch}

GradeBanks == {<<>>, <<Q1, Q2>>, <<Q3, Q2>>}

RegData(name, regno, college, department, year) ==
    [name |-> name, regno |-> regno, college |-> college, department |-> department, year |-> year]

RegisterRequests ==
    {RegData("n1", "r1", "c1", "d1", NumStr(2023)),
     RegData("n2", "r2", "c1", "d1", NumStr(2023)),
     RegData("n2", "r1", "c1", "d1", NumStr(2023)),
     RegData("n2", " r1 ", "c1", "d1", I(2023)),
     RegData("", "r1", "c1", "d1", NumStr(2023)),
     RegData("n1", "r2", "  ", "d1", NumStr(2023)),
     RegData("n1", "r1", "c1", "d1", Abc),
     RegData("n1", "r2", "c1", "d1", Missing),
     RegData("n1", "", "c1", "d1", NumStr(2023))}

SubmitPayload(regno, batch) == [name |-> "zz", regno |-> regno, answers |-> batch]

SubmitRequests(regnos, batches) == {SubmitPayload(r, b) : r \in regnos, b \in batches}

\* the submissions of the grading runs
GradeSubmits == SubmitRequests({"r1"}, Batches(Items))

\* the submissions of the runs with several participants
MainSubmits == SubmitRequests({"r1", "r2", " r1 ", ""}, {<<>>, <<A1, A2>>, <<A6, A1>>})

DeleteRequests == {[regno |-> r] : r \in {"r1", "r2", "r3", ""}}

AddData(question, isList, items, answer) ==
    [question |-> question, options |-> [isList |-> isList, items |-> items], answer |-> answer]

AddRequests ==
    {AddData("Q1", TRUE, <<"A", "B">>, I(0)),
     AddData("", TRUE, <<"A", "B">>, I(0)),
     AddData("Q?", TRUE, <<"A">>, I(0)),
     AddData("Q?", FALSE, <<>>, I(0)),
     AddData("Q?", TRUE, <<"A", "B">>, I(5)),
     AddData("Q?", TRUE, <<"A", "B">>, NumStr(1)),
     AddData("Q?", TRUE, <<"A", "B">>, Bool(1))}

\* the questions the selector runs append: a copy of the bank's first
\* question, or a question the bank does not hold yet
SelAddRequests ==
    {AddData("T1", TRUE, <<"A", "B">>, I(1)),
     AddData("New", TRUE, <<"A", "B">>, I(0)),
     AddData("New", TRUE, <<"A", "C">>, I(0))}

\* the add-question requests of the concurrent runs: two questions and a
\* request without text
ConcAddRequests ==
    {AddData("Q3", TRUE, <<"A", "B">>, I(0)),
     AddData("Q4", TRUE, <<"A", "B">>, I(1)),
     AddData("", TRUE, <<"A", "B">>, I(0))}

\* the submissions of the concurrent runs
ConcSubmits == SubmitRequests({"r1"}, {<<A1, A2>>, <<A6>>, <<>>})

\* the ranking runs: the registered participants are r1 .. rN, of whom r1
\* and r11 submit and are deleted
Regnos == <<"r1", "r2", "r3", "r4", "r5", "r6", "r7", "r8", "r9", "r10", "r11", "r12", "r13">>

RankSizes == {0, 2, MaxRank}

RankBatches == {<<A1>>, <<A3>>}

RankSubmits == SubmitRequests({"r1", "r11"}, RankBatches)

RankDeletes == {[regno |-> r] : r \in {"r1", "r11", ""}}

Scans == {"asc", "desc"}

\* the runs of submissions next to add-question requests: A7 names the
\* question a concurrent request appends
A7 == Item(I(2), I(0), I(5))

BankSubmits == SubmitRequests({"r1"}, {<<A1, A7>>, <<A7>>})

\* the runs on the average time: items with a float, a boolean, a string or
\* no time, and skipped items that carry a time
A8 == Item(I(1), I(1), F(2))              \* question 1, option 1, 2.5 seconds
A9 == Item(I(0), I(0), Bool(1))           \* the time is JSON true
A10 == Item(I(1), I(0), NumStr(10))       \* the time is the string "10"
A11 == Item(I(0), Abc, I(7))              \* selected is not a number
A12 == Item(I(0), I(0), I(-5))            \* question 0, option 0, a negative time

TimeItems == {A3, A5, A8, A9, A10, A11, A12}

TimeSubmits == SubmitRequests({"r1"}, Batches(TimeItems))

\* the delete requests of the concurrent runs
ConcDeletes == {[regno |-> r] : r \in {"r1", "r2", "r3", ""}}

-----------------------------------------------------------------------------
(* Initial states *)

NoRequest == [op |-> "none", req |-> [regno |-> ""], status |-> 0]
NoPrev == [same |-> FALSE, correct |-> -1]
NoAggregates == [correct |-> 0, points |-> 0, avg_time |-> Zero]
Idle == [pc |-> "idle", op |-> "none", data |-> [regno |-> ""], pid |-> 0, fresh |-> FALSE,
         status |-> 0, at |-> "idle",
         questions |-> <<>>, count |-> 0, agg |-> NoAggregates, rid |-> 0]
\* pc: the step the thread is at, and once "done" the field `at` keeps the step
\* that produced the response; questions, agg and rid are the handler's local
\* variables of these names, count the count of an add-question response
NoSel == [half |-> "none", items |-> <<>>]
NoBoard == [kind |-> "none", header |-> <<>>, rows |-> <<>>]

\* the participant the tests' setUp creates
SeedParticipant == [id |-> 1, name |-> "n1", regno |-> "r1", college |-> "c1", dept |-> "d1", year |-> 2023]

\* the Result the tests' setUp creates: correct=1, points=2, avg_time=15.5
SeedResult == [id |-> 1, participant |-> 1, correct |-> 1, points |-> 2, avg_time |-> Frac(31, 2)]

\* an empty store; the store of QuizLogicTestCase.setUp (a participant with
\* no Result); the store of QuizAppTestCase.setUp (a participant and its Result)
InitStore ==
    \/ participants = {} /\ results = {} /\ nextPid = 1 /\ nextRid = 1
    \/ participants = {SeedParticipant} /\ results = {} /\ nextPid = 2 /\ nextRid = 1
    \/ participants = {SeedParticipant} /\ results = {SeedResult} /\ nextPid = 2 /\ nextRid = 2

\* no request handled yet
InitRequests ==
    /\ torn = FALSE
    /\ last = NoRequest
    /\ prev = NoPrev
    /\ served = {}
    /\ req = [t \in Threads |-> Idle]
    /\ sel = NoSel
    /\ board = NoBoard

InitRest ==
    /\ answers = <<>>
    /\ InitRequests

Init ==
    /\ InitStore
    /\ bank = <<Q1, Q2>>
    /\ InitRest

GradeInit ==
    /\ InitStore
    /\ bank \in GradeBanks
    /\ InitRest

\* the k-th participant registered and the zeroed Result register gives it
RankParticipant(k) ==
    [id |-> k, name |-> "n1", regno |-> Regnos[k], college |-> "c1", dept |-> "d1", year |-> 2023]
RankResult(k) == [id |-> k, participant |-> k, correct |-> 0, points |-> 0, avg_time |-> Zero]

\* the store after n registrations
RankInit ==
    /\ \E n \in RankSizes :
          /\ participants = {RankParticipant(k) : k \in 1..n}
          /\ results = {RankResult(k) : k \in 1..n}
          /\ nextPid = n + 1
          /\ nextRid = n + 1
    /\ bank = <<Q1, Q2>>
    /\ InitRest

\* the store after r1 and r2 have registered and submitted a batch each
SubmittedStore ==
    LET registered == [participants |-> {RankParticipant(1), RankParticipant(2)},
                       results |-> {RankResult(1), RankResult(2)},
                       answers |-> <<>>, nextPid |-> 3, nextRid |-> 3]
        first == submit_quiz(registered, <<Q1, Q2>>, SubmitPayload("r1", <<A1, A2>>)).db
    IN  submit_quiz(first, <<Q1, Q2>>, SubmitPayload("r2", <<A1>>)).db

SubmittedInit ==
    /\ participants = SubmittedStore.participants
    /\ results = SubmittedStore.results
    /\ answers = SubmittedStore.answers
    /\ nextPid = SubmittedStore.nextPid
    /\ nextRid = SubmittedStore.nextRid
    /\ bank = <<Q1, Q2>>
    /\ InitRequests

SelInit ==
    /\ InitStore
    /\ bank \in {DistinctBank(0), DistinctBank(SelBase)}
    /\ InitRest

-----------------------------------------------------------------------------
(* Requests handled to completion, one at a time *)

SetStore(db) ==
    /\ participants' = db.participants
    /\ results' = db.results
    /\ answers' = db.answers
    /\ nextPid' = db.nextPid
    /\ nextRid' = db.nextRid

\* the correct count stored for regno's participant, -1 when there is none
StoredCorrect(db, regno) ==
    LET ps == ParticipantsByRegno(db, regno)
    IN  IF ps = {} \/ ResultsOf(db, FirstRow(ps).id) = {} THEN -1
        ELSE FirstRow(ResultsOf(db, FirstRow(ps).id)).correct

Record(op, data, status) == last' = [op |-> op, req |-> data, status |-> status]

\* history of a submit: whether the request before it was the same payload,
\* submitted with success, and the correct count stored before it (-1 when
\* the participant had no Result)
TrackHistory ==
    prev' = IF last'.op = "submit"
            THEN [same |-> last.op = "submit" /\ last.status = 200 /\ last.req = last'.req,
                  correct |-> StoredCorrect(DB, Strip(last'.req.regno))]
            ELSE NoPrev

Register(data) ==
    LET out == register(DB, data)
    IN  /\ out.db.nextPid <= MaxPid + 1
        /\ SetStore(out.db)
        /\ Record("register", data, out.status)
        /\ served' = IF out.status = 200 THEN served \cup {Strip(data.regno)} ELSE served
        /\ UNCHANGED <<bank, torn, req, sel, board>>

SubmitQuiz(payload) ==
    LET out == submit_quiz(DB, bank, payload)
    IN  /\ SetStore(out.db)
        /\ Record("submit", payload, out.status)
        /\ served' = IF out.status = 200 THEN served \cup {Strip(payload.regno)} ELSE served
        /\ UNCHANGED <<bank, torn, req, sel, board>>

DeleteParticipant(payload) ==
    LET out == admin_api_delete_participant(DB, payload)
    IN  /\ SetStore(out.db)
        /\ Record("delete", payload, out.status)
        /\ served' = IF out.status = 200 THEN served \ {Strip(payload.regno)} ELSE served
        /\ UNCHANGED <<bank, torn, req, sel, board>>

AddQuestion(data) ==
    LET out == admin_api_add_question(bank, data)
    IN  /\ Len(out.bank) <= MaxBank \/ (Len(bank) >= SelBase /\ Len(out.bank) <= MaxSelBank)
        /\ bank' = out.bank
        /\ Record("add", data, out.status)
        /\ UNCHANGED <<participants, results, answers, nextPid, nextRid, torn, served, req, sel, board>>

GetQuestions(half) ==
    /\ sel' = [half |-> half, items |-> get_questions(bank, half)]
    /\ UNCHANGED <<participants, results, answers, nextPid, nextRid, bank, torn, last, served, req, board>>

SetBoard(kind, out) ==
    /\ board' = [kind |-> kind, header |-> out.header, rows |-> out.rows]
    /\ UNCHANGED <<participants, results, answers, nextPid, nextRid, bank, torn, last, served, req, sel>>

LeaderboardApi(scan) == SetBoard("api", leaderboard_api(DB, scan))

AdminApiTop(scan) == SetBoard("top", admin_api_top(DB, scan))

AdminApiExportLeaderboard(scan) == SetBoard("csv", admin_api_export_leaderboard(DB, scan))

Next ==
    \/ \E data \in RegisterRequests : Register(data) /\ UNCHANGED prev
    \/ \E payload \in MainSubmits : SubmitQuiz(payload) /\ UNCHANGED prev
    \/ \E payload \in DeleteRequests : DeleteParticipant(payload) /\ UNCHANGED prev
    \/ \E data \in AddRequests : AddQuestion(data) /\ UNCHANGED prev

Spec == Init /\ [][Next]_vars

\* grading explored in depth: one participant, every item, several banks
GradeNext ==
    \/ Register(RegData("n1", "r1", "c1", "d1", NumStr(2023))) /\ TrackHistory
    \/ \E payload \in GradeSubmits : SubmitQuiz(payload) /\ TrackHistory

GradeSpec == GradeInit /\ [][GradeNext]_vars

\* the banks of the runs on the average time: one question, or two
TimeInit ==
    /\ InitStore
    /\ bank \in {<<Q1>>, <<Q1, Q2>>}
    /\ InitRest

\* the average time explored in depth: one participant, every item
TimeNext ==
    \/ Register(RegData("n1", "r1", "c1", "d1", NumStr(2023))) /\ UNCHANGED prev
    \/ \E payload \in TimeSubmits : SubmitQuiz(payload) /\ UNCHANGED prev

TimeSpec == TimeInit /\ [][TimeNext]_vars

\* the /questions selector on banks that grow by add-question
SelNext ==
    \/ \E half \in {"a", "b"} : GetQuestions(half) /\ UNCHANGED prev
    \/ \E data \in SelAddRequests : AddQuestion(data) /\ UNCHANGED prev

SelSpec == SelInit /\ [][SelNext]_vars

\* history of a delete: the correct count stored for the participant before it
TrackDeleted ==
    prev' = [same |-> FALSE, correct |-> StoredCorrect(DB, Strip(last'.req.regno))]

\* the ranking queries over stores that submissions and deletions change
RankNext ==
    \/ \E payload \in RankSubmits : SubmitQuiz(payload) /\ prev' = NoPrev
    \/ \E payload \in RankDeletes : DeleteParticipant(payload) /\ TrackDeleted
    \/ \E scan \in Scans : LeaderboardApi(scan) /\ UNCHANGED prev
    \/ \E scan \in Scans : AdminApiTop(scan) /\ UNCHANGED prev
    \/ \E scan \in Scans : AdminApiExportLeaderboard(scan) /\ UNCHANGED prev

RankSpec == RankInit /\ [][RankNext]_vars

-----------------------------------------------------------------------------
(* Requests handled by concurrent worker threads: a step of a thread is one *)
(* access to the store                                                      *)

SetReq(t, pc, pid, status) ==
    req' = [req EXCEPT ![t].pc = pc, ![t].pid = pid, ![t].status = status, ![t].at = req[t].pc]

\* a register request arrives at an idle worker
BeginRegister(t, data) ==
    /\ req[t].pc = "idle"
    /\ req' = [req EXCEPT ![t] = [Idle EXCEPT !.pc = "check", !.op = "register", !.data = data,
                                               !.fresh = ParticipantsByRegno(DB, Strip(data.regno)) = {}]]
    /\ UNCHANGED <<participants, results, answers, nextPid, nextRid, bank, torn, last, prev, served, sel, board>>

\* validation and Participant.get_or_none
RegisterCheckStep(t) ==
    /\ req[t].pc = "check"
    /\ LET chk == RegisterCheck(DB, req[t].data)
       IN  IF chk # 0 THEN SetReq(t, "done", 0, chk) ELSE SetReq(t, "create", 0, 0)
    /\ UNCHANGED <<participants, results, answers, nextPid, nextRid, bank, torn, last, prev, served, sel, board>>

\* Participant.create
RegisterCreateStep(t) ==
    /\ req[t].pc = "create"
    /\ LET c == RegisterCreate(DB, req[t].data)
       IN  /\ SetStore(c.db)
           /\ IF c.status # 0 THEN SetReq(t, "done", 0, c.status) ELSE SetReq(t, "result", c.id, 0)
    /\ UNCHANGED <<bank, torn, last, prev, served, sel, board>>

\* Result.get_or_create and the response
RegisterResultStep(t) ==
    /\ req[t].pc = "result"
    /\ LET r == RegisterResult(DB, req[t].pid)
       IN  /\ SetStore(r.db)
           /\ SetReq(t, "done", req[t].pid, r.status)
    /\ UNCHANGED <<bank, torn, last, prev, served, sel, board>>

ConcNext ==
    \E t \in Threads :
        \/ \E data \in RegisterRequests : BeginRegister(t, data)
        \/ RegisterCheckStep(t)
        \/ RegisterCreateStep(t)
        \/ RegisterResultStep(t)

ConcSpec == Init /\ [][ConcNext]_vars

\* an add-question request arrives at an idle worker
BeginAdd(t, data) ==
    /\ req[t].pc = "idle"
    /\ req' = [req EXCEPT ![t] = [Idle EXCEPT !.pc = "add_check", !.op = "add", !.data = data]]
    /\ UNCHANGED <<participants, results, answers, nextPid, nextRid, bank, torn, last, prev, served, sel, board>>

\* the validation of the request
AddCheckStep(t) ==
    /\ req[t].pc = "add_check"
    /\ LET chk == AddQuestionCheck(req[t].data)
       IN  IF chk # 0 THEN SetReq(t, "done", 0, chk) ELSE SetReq(t, "add_read", 0, 0)
    /\ UNCHANGED <<participants, results, answers, nextPid, nextRid, bank, torn, last, prev, served, sel, board>>

\* the file read inside try / except: questions = [] when json.load raises
AddReadStep(t) ==
    /\ req[t].pc = "add_read"
    /\ LET loaded == JsonLoad(bank, torn)
       IN  req' = [req EXCEPT ![t].pc = "add_open", ![t].at = "add_read",
                              ![t].questions = IF loaded.raised THEN <<>> ELSE loaded.value]
    /\ UNCHANGED <<participants, results, answers, nextPid, nextRid, bank, torn, last, prev, served, sel, board>>

\* questions.append(...) and open(QUESTIONS_FILE, "w"), which empties the file
AddOpenStep(t) ==
    /\ req[t].pc = "add_open"
    /\ bank' = <<>>
    /\ torn' = TRUE
    /\ req' = [req EXCEPT ![t].pc = "add_dump", ![t].at = "add_open",
                           ![t].questions = AppendQuestion(req[t].questions, req[t].data)]
    /\ UNCHANGED <<participants, results, answers, nextPid, nextRid, last, prev, served, sel, board>>

\* json.dump(questions, f), the file closed, and the response
AddDumpStep(t) ==
    /\ req[t].pc = "add_dump"
    /\ LET file == JsonDump([doc |-> bank, unreadable |-> torn], req[t].questions)
       IN  /\ bank' = file.doc
           /\ torn' = file.unreadable
    /\ req' = [req EXCEPT ![t].pc = "done", ![t].at = "add_dump", ![t].status = 200,
                           ![t].count = Len(req[t].questions)]
    /\ UNCHANGED <<participants, results, answers, nextPid, nextRid, last, prev, served, sel, board>>

ConcAddNext ==
    \E t \in Threads :
        \/ \E data \in ConcAddRequests : BeginAdd(t, data)
        \/ AddCheckStep(t)
        \/ AddReadStep(t)
        \/ AddOpenStep(t)
        \/ AddDumpStep(t)

ConcAddSpec == Init /\ [][ConcAddNext]_vars

\* a submit request arrives at an idle worker
BeginSubmit(t, payload) ==
    /\ req[t].pc = "idle"
    /\ req' = [req EXCEPT ![t] = [Idle EXCEPT !.pc = "submit_check", !.op = "submit", !.data = payload]]
    /\ UNCHANGED <<participants, results, answers, nextPid, nextRid, bank, torn, last, prev, served, sel, board>>

\* the payload checks and Participant.get
SubmitCheckStep(t) ==
    /\ req[t].pc = "submit_check"
    /\ LET chk == SubmitCheck(DB, req[t].data)
       IN  IF chk # 0 THEN SetReq(t, "done", 0, chk)
           ELSE SetReq(t, "submit_load",
                       FirstRow(ParticipantsByRegno(DB, Strip(req[t].data.regno))).id, 0)
    /\ UNCHANGED <<participants, results, answers, nextPid, nextRid, bank, torn, last, prev, served, sel, board>>

\* (a variant that reads the file as add-question does: an empty bank when
\* json.load raises)
SubmitLoadStepOrEmpty(t) ==
    /\ req[t].pc = "submit_load"
    /\ LET loaded == JsonLoad(bank, torn)
       IN  req' = [req EXCEPT ![t].pc = "submit_upsert", ![t].at = "submit_load",
                              ![t].questions = loaded.value,
                              ![t].agg = Grade(loaded.value, req[t].data.answers)]
    /\ UNCHANGED <<participants, results, answers, nextPid, nextRid, bank, torn, last, prev, served, sel, board>>

\* questions = json.load(f) and the grading loop over it; nothing catches
\* what json.load raises, the request answers 500
SubmitLoadStep(t) ==
    /\ req[t].pc = "submit_load"
    /\ LET loaded == JsonLoad(bank, torn)
       IN  IF loaded.raised
           THEN req' = [req EXCEPT ![t].pc = "done", ![t].at = "submit_load", ![t].status = 500]
           ELSE req' = [req EXCEPT ![t].pc = "submit_upsert", ![t].at = "submit_load",
                                   ![t].questions = loaded.value,
                                   ![t].agg = Grade(loaded.value, req[t].data.answers)]
    /\ UNCHANGED <<participants, results, answers, nextPid, nextRid, bank, torn, last, prev, served, sel, board>>

\* Result.get_or_create, the aggregates assigned, r.save()
SubmitUpsertStep(t) ==
    /\ req[t].pc = "submit_upsert"
    /\ LET u == SubmitUpsert(DB, req[t].pid, req[t].agg)
       IN  /\ SetStore(u.db)
           /\ req' = [req EXCEPT ![t].pc = "submit_delete", ![t].at = "submit_upsert", ![t].rid = u.rid]
    /\ UNCHANGED <<bank, torn, last, prev, served, sel, board>>

\* Answer.delete().where(Answer.result == r).execute()
SubmitDeleteStep(t) ==
    /\ req[t].pc = "submit_delete"
    /\ SetStore(AnswerDeleteWhere(DB, req[t].rid))
    /\ req' = [req EXCEPT ![t].pc = "submit_insert", ![t].at = "submit_delete"]
    /\ UNCHANGED <<bank, torn, last, prev, served, sel, board>>

\* Answer.insert_many(to_insert).execute() when there are rows, and the response
SubmitInsertStep(t) ==
    /\ req[t].pc = "submit_insert"
    /\ SetStore(IF req[t].data.answers # <<>>
                THEN AnswerInsertMany(DB, AnswerRows(req[t].rid, req[t].data.answers))
                ELSE DB)
    /\ req' = [req EXCEPT ![t].pc = "done", ![t].at = "submit_insert", ![t].status = 200]
    /\ UNCHANGED <<bank, torn, last, prev, served, sel, board>>

ConcSubmitNext ==
    \E t \in Threads :
        \/ \E payload \in ConcSubmits : BeginSubmit(t, payload)
        \/ SubmitCheckStep(t)
        \/ SubmitLoadStep(t)
        \/ SubmitUpsertStep(t)
        \/ SubmitDeleteStep(t)
        \/ SubmitInsertStep(t)

ConcSubmitSpec == Init /\ [][ConcSubmitNext]_vars

\* submissions that run while add-question requests rewrite the bank
ConcBankNext ==
    \E t \in Threads :
        \/ \E data \in ConcAddRequests : BeginAdd(t, data)
        \/ AddCheckStep(t)
        \/ AddReadStep(t)
        \/ AddOpenStep(t)
        \/ AddDumpStep(t)
        \/ \E payload \in BankSubmits : BeginSubmit(t, payload)
        \/ SubmitCheckStep(t)
        \/ SubmitLoadStep(t)
        \/ SubmitUpsertStep(t)
        \/ SubmitDeleteStep(t)
        \/ SubmitInsertStep(t)

ConcBankSpec == Init /\ [][ConcBankNext]_vars

\* a delete-participant request arrives at an idle worker
BeginDelete(t, payload) ==
    /\ req[t].pc = "idle"
    /\ req' = [req EXCEPT ![t] = [Idle EXCEPT !.pc = "delete_check", !.op = "delete", !.data = payload]]
    /\ UNCHANGED <<participants, results, answers, nextPid, nextRid, bank, torn, last, prev, served, sel, board>>

\* the regno check and Participant.get_or_none
DeleteCheckStep(t) ==
    /\ req[t].pc = "delete_check"
    /\ LET regno == Strip(req[t].data.regno)
       IN  IF regno = "" THEN SetReq(t, "done", 0, 400)
           ELSE IF ParticipantsByRegno(DB, regno) = {} THEN SetReq(t, "done", 0, 404)
           ELSE SetReq(t, "delete_answers", FirstRow(ParticipantsByRegno(DB, regno)).id, 0)
    /\ UNCHANGED <<participants, results, answers, nextPid, nextRid, bank, torn, last, prev, served, sel, board>>

\* delete_instance: the DELETE of the dependent Answer rows
DeleteAnswersStep(t) ==
    /\ req[t].pc = "delete_answers"
    /\ SetStore(DeleteDependentAnswers(DB, req[t].pid))
    /\ req' = [req EXCEPT ![t].pc = "delete_results", ![t].at = "delete_answers"]
    /\ UNCHANGED <<bank, torn, last, prev, served, sel, board>>

\* delete_instance: the DELETE of the dependent Result rows
DeleteResultsStep(t) ==
    /\ req[t].pc = "delete_results"
    /\ SetStore(DeleteDependentResults(DB, req[t].pid))
    /\ req' = [req EXCEPT ![t].pc = "delete_participant", ![t].at = "delete_results"]
    /\ UNCHANGED <<bank, torn, last, prev, served, sel, board>>

\* delete_instance: the DELETE of the participant's row, and the response
DeleteParticipantStep(t) ==
    /\ req[t].pc = "delete_participant"
    /\ SetStore(DeleteParticipantRow(DB, req[t].pid))
    /\ req' = [req EXCEPT ![t].pc = "done", ![t].at = "delete_participant", ![t].status = 200]
    /\ UNCHANGED <<bank, torn, last, prev, served, sel, board>>

\* a statement of delete_instance raises (the store refuses it): the except
\* clause answers 500, the statements executed before it stay committed
DeleteFailStep(t) ==
    /\ req[t].pc \in {"delete_answers", "delete_results", "delete_participant"}
    /\ req' = [req EXCEPT ![t].pc = "done", ![t].at = req[t].pc, ![t].status = 500]
    /\ UNCHANGED <<participants, results, answers, nextPid, nextRid, bank, torn, last, prev, served, sel, board>>

ConcDeleteNext ==
    \E t \in Threads :
        \/ \E payload \in ConcDeletes : BeginDelete(t, payload)
        \/ DeleteCheckStep(t)
        \/ DeleteAnswersStep(t)
        \/ DeleteResultsStep(t)
        \/ DeleteParticipantStep(t)
        \/ DeleteFailStep(t)

ConcDeleteSpec == SubmittedInit /\ [][ConcDeleteNext]_vars

\* a statement of submit_quiz that writes a row whose foreign key names a row
\* deleted meanwhile, on a store that enforces its foreign keys: the statement
\* raises, nothing catches it and the request answers 500.  (On a store that
\* does not enforce them the statement is SubmitUpsertStep / SubmitInsertStep.)
SubmitRefusedStep(t) ==
    /\ \/ /\ req[t].pc = "submit_upsert"
          /\ ResultsOf(DB, req[t].pid) = {}
          /\ \A p \in participants : p.id # req[t].pid
       \/ /\ req[t].pc = "submit_insert"
          /\ req[t].data.answers # <<>>
          /\ \A r \in results : r.id # req[t].rid
    /\ req' = [req EXCEPT ![t].pc = "done", ![t].at = req[t].pc, ![t].status = 500]
    /\ UNCHANGED <<participants, results, answers, nextPid, nextRid, bank, torn, last, prev, served, sel, board>>

\* submissions that run while delete-participant requests run
ConcSubmitDeleteNext ==
    \E t \in Threads :
        \/ \E payload \in ConcSubmits : BeginSubmit(t, payload)
        \/ SubmitCheckStep(t)
        \/ SubmitLoadStep(t)
        \/ SubmitUpsertStep(t)
        \/ SubmitDeleteStep(t)
        \/ SubmitInsertStep(t)
        \/ SubmitRefusedStep(t)
        \/ \E payload \in ConcDeletes : BeginDelete(t, payload)
        \/ DeleteCheckStep(t)
        \/ DeleteAnswersStep(t)
        \/ DeleteResultsStep(t)
        \/ DeleteParticipantStep(t)
        \/ DeleteFailStep(t)

ConcSubmitDeleteSpec == SubmittedInit /\ [][ConcSubmitDeleteNext]_vars

-----------------------------------------------------------------------------
(* Properties *)

Store == <<participants, results, answers, nextPid, nextRid>>

\* the fields of a register request pass validation: all non-empty after
\* trimming, the year an integer or a string of digits
ValidFields(data) ==
    /\ Strip(data.name) # "" /\ Strip(data.regno) # "" /\ Strip(data.college) # ""
    /\ Strip(data.department) # ""
    /\ data.year.t \in {"int", "numstr"}

RegnoHeld(regno) == \E p \in participants : p.regno = Strip(regno)

UniqueRegno(ps) == \A p, q \in ps : p.regno = q.regno => p = q

\* the Result rows and the Answer rows of the participant holding regno
ResultRowsOf(db, regno) ==
    {r \in db.results : \E p \in db.participants : p.regno = regno /\ r.participant = p.id}
AnswerRowsOf(db, regno) ==
    SelectSeq(db.answers, LAMBDA a : \E r \in ResultRowsOf(db, regno) : a.result = r.id)

\* C1 as stated: a register request whose regno is already held answers 409
\* whatever its other fields are, and changes nothing in the store.
C1_ConflictWhateverFields ==
    [][(last'.op = "register" /\ RegnoHeld(last'.req.regno) /\ Register(last'.req))
          => (last'.status = 409 /\ UNCHANGED Store)]_vars

\* C1 amended: a register request whose regno is already held answers 409 when
\* its other fields are valid and 400 when they are not; in both cases the
\* store (the participant's row, its Result, its Answers) is unchanged and no
\* two participants share a regno.
C1_ConflictKeepsRecord ==
    [][(last'.op = "register" /\ RegnoHeld(last'.req.regno) /\ Register(last'.req))
          => /\ last'.status = (IF ValidFields(last'.req) THEN 409 ELSE 400)
             /\ UNCHANGED Store
             /\ UniqueRegno(participants')]_vars

\* a conflict answered to a request that carries another name than the stored
\* participant, who has a graded Result and Answer rows
C1_Witness ==
    /\ last.op = "register" /\ last.status = 409
    /\ \E p \in participants :
          /\ p.regno = Strip(last.req.regno) /\ p.name # Strip(last.req.name)
          /\ \E r \in ResultsOf(DB, p.id) : r.correct > 0 /\ AnswersOf(DB, r.id) # <<>>

\* C2: of two register requests with valid fields and the same regno, unused
\* when the first of them arrived, exactly one answers 200 and the other 409,
\* under every interleaving of their steps; the regno is never held by two
\* participants and no request answers 500.
C2_ConcurrentRegister ==
    /\ UniqueRegno(participants)
    /\ \A t \in Threads : req[t].status # 500
    /\ \A t, u \in Threads :
          (/\ t # u /\ req[t].pc = "done" /\ req[u].pc = "done"
           /\ req[t].op = "register" /\ req[u].op = "register"
           /\ Strip(req[t].data.regno) = Strip(req[u].data.regno)
           /\ ValidFields(req[t].data) /\ ValidFields(req[u].data)
           /\ (req[t].fresh \/ req[u].fresh))
          => {req[t].status, req[u].status} = {200, 409}

\* both requests passed the lookup before either created the row: the loser's
\* 409 comes from the create step
C2_Witness ==
    \E t, u \in Threads :
        /\ t # u /\ req[t].pc = "done" /\ req[u].pc = "done"
        /\ req[t].fresh /\ req[u].fresh
        /\ Strip(req[t].data.regno) = Strip(req[u].data.regno)
        /\ req[t].status = 200
        /\ req[u].status = 409 /\ req[u].at = "create"

\* C3: every participant has at most one Result, and every participant with a
\* successful register or submit (not deleted since) has exactly one.
C3_OneResultPerParticipant ==
    /\ \A p \in participants : Cardinality(ResultsOf(DB, p.id)) <= 1
    /\ \A regno \in served :
          \E p \in participants : p.regno = regno /\ Cardinality(ResultsOf(DB, p.id)) = 1

\* a submission by a participant whose registration had already created the
\* Result, while another participant holds a Result too
C3_Witness ==
    /\ last.op = "submit" /\ last.status = 200 /\ last.req.answers # <<>>
    /\ served = {"r1", "r2"}
    /\ Cardinality(results) = 2

\* C4: a submit whose regno matches no participant answers 400 for every
\* batch and changes no row of the store nor the bank.
C4_SubmitUnregistered ==
    [][(last'.op = "submit" /\ ~RegnoHeld(last'.req.regno) /\ SubmitQuiz(last'.req))
          => (last'.status = 400 /\ UNCHANGED <<Store, bank>>)]_vars

\* a batch refused for an unknown regno while another participant holds a
\* graded Result and Answer rows
C4_Witness ==
    /\ last.op = "submit" /\ last.status = 400
    /\ Strip(last.req.regno) # "" /\ last.req.answers # <<>>
    /\ ~RegnoHeld(last.req.regno)
    /\ \E r \in results : r.correct > 0 /\ AnswersOf(DB, r.id) # <<>>

\* C6: every stored Result has points = 2 * correct.
C6_PointsTwiceCorrect == \A r \in results : r.points = 2 * r.correct

\* a zeroed Result next to a Result overwritten by a submission with two
\* correct answers
C6_Witness ==
    /\ \E r \in results : r.correct = 2 /\ r.points = 4
    /\ \E r \in results : r.correct = 0 /\ r.points = 0

\* the last request was a submit answered with success
Submitted == last.op = "submit" /\ last.status = 200

\* the items of a batch that count as the claim describes them: the qId a
\* number in [0, bank length), selected a number, equal to the integer answer
\* the bank stores at that qId (numbers as int() reads them)
CountsFor(questions, qid, selected) ==
    /\ ~IntRaises(qid) /\ 0 <= IntOf(qid) /\ IntOf(qid) < Len(questions)
    /\ ~IntRaises(selected)
    /\ questions[IntOf(qid) + 1].answer.t = "int"
    /\ IntOf(selected) = questions[IntOf(qid) + 1].answer.v

CountedAsClaimed(questions, batch) ==
    {k \in 1..Len(batch) : CountsFor(questions, batch[k].qId, batch[k].selected)}

\* the same with an item that has no qId read as naming its 0-based position
CountedWithFallback(questions, batch) ==
    {k \in 1..Len(batch) :
        CountsFor(questions, IF batch[k].qId.t = "missing" THEN I(k - 1) ELSE batch[k].qId,
                  batch[k].selected)}

C7_SubmitIdempotent ==
    [][(/\ Submitted /\ last'.op = "submit" /\ last'.status = 200 /\ last'.req = last.req
        /\ SubmitQuiz(last'.req))
          => /\ ResultRowsOf(DB, "r1")' = ResultRowsOf(DB, "r1")
             /\ Cardinality(ResultRowsOf(DB, "r1")') = 1
             /\ Len(AnswerRowsOf(DB, "r1")) = Len(last.req.answers)
             /\ Len(AnswerRowsOf(DB, "r1")') = Len(last.req.answers)
             /\ AnswerRowsOf(DB, "r1")' = AnswerRowsOf(DB, "r1")]_vars

\* a batch of two items with a correct answer, submitted twice in a row
C7_Witness ==
    /\ Submitted /\ prev.same
    /\ Len(last.req.answers) = 2
    /\ StoredCorrect(DB, "r1") > 0
    /\ Len(AnswerRowsOf(DB, "r1")) = 2

\* what a Result and its Answer rows hold, apart from primary keys
Outcome(db, regno) ==
    LET rows == AnswerRowsOf(db, regno)
    IN  [aggregates |-> {[correct |-> r.correct, points |-> r.points, avg_time |-> r.avg_time]
                            : r \in ResultRowsOf(db, regno)},
         rows |-> [k \in 1..Len(rows) |->
                     [question_id |-> rows[k].question_id,
                      answer |-> rows[k].answer,
                      time_taken |-> rows[k].time_taken]]]

\* the store without the Result and the Answer rows of regno's participant
WithoutResult(db, regno) ==
    [db EXCEPT !.results = @ \ ResultRowsOf(db, regno),
               !.answers = SelectSeq(@, LAMBDA a : \A r \in ResultRowsOf(db, regno) : a.result # r.id)]

\* C8: once a submission of batch B has succeeded for a participant who
\* already had a Result (left by a submission of any batch A), the store holds
\* the aggregates and the Answer rows that the submission of B alone, by a
\* participant without Result, produces.
C8_ResubmitOverwrites ==
    (Submitted /\ prev.correct # -1)
        => LET alone == submit_quiz(WithoutResult(DB, "r1"), bank, last.req).db
           IN  Outcome(DB, "r1") = Outcome(alone, "r1")

\* a submission that scores lower than the one it replaces
C8_Witness ==
    /\ Submitted /\ ~prev.same /\ prev.correct = 2
    /\ StoredCorrect(DB, "r1") = 0
    /\ Len(AnswerRowsOf(DB, "r1")) = 1

\* the items the grading loop skips: a qId that is not a number or is out of
\* range, or a selected that is not a number
SkippedAsClaimed(questions, batch) ==
    {k \in 1..Len(batch) :
        \/ batch[k].qId.t # "missing" /\ IntRaises(batch[k].qId)
        \/ ~IntRaises(batch[k].qId)
              /\ ~(0 <= IntOf(batch[k].qId) /\ IntOf(batch[k].qId) < Len(questions))
        \/ IntRaises(DictGet(batch[k].selected, Null))}

\* C9: after a successful submit the Answer rows of the Result are one row
\* per item of the batch, in order, holding the item's qId, selected and
\* time_sec as submitted (null for an absent key), skipped items included;
\* the skipped items add nothing to correct.
C9_OneRowPerItem ==
    Submitted =>
        LET batch == last.req.answers
            rows == AnswerRowsOf(DB, Strip(last.req.regno))
        IN  /\ Len(rows) = Len(batch)
            /\ \A k \in 1..Len(batch) :
                  /\ rows[k].question_id = (IF batch[k].qId.t = "missing" THEN Null ELSE batch[k].qId)
                  /\ rows[k].answer = (IF batch[k].selected.t = "missing" THEN Null ELSE batch[k].selected)
                  /\ rows[k].time_taken = (IF batch[k].time_sec.t = "missing" THEN Null ELSE batch[k].time_sec)
            /\ StoredCorrect(DB, Strip(last.req.regno))
                  <= Len(batch) - Cardinality(SkippedAsClaimed(bank, batch))

\* a batch whose first item is skipped (qId is not a number) and whose second
\* is correct: two rows, one correct answer
C9_Witness ==
    /\ Submitted /\ last.req.answers = <<A5, A2>>
    /\ Len(AnswerRowsOf(DB, "r1")) = 2
    /\ AnswerRowsOf(DB, "r1")[1].question_id = Abc
    /\ StoredCorrect(DB, "r1") = 1

\* the 0-based position in the bank of the k-th item of a half
PositionOf(half, k) == IF half = "a" THEN k - 1 ELSE SplitAt + k - 1

\* C10: every item of a /questions response has as id the position in the
\* bank of the question it was built from: the ids of a response are
\* pairwise different and bank[id] is that question.
C10_IdIsPosition ==
    sel.half # "none" =>
        /\ \A k \in 1..Len(sel.items) :
              /\ sel.items[k].id = PositionOf(sel.half, k)
              /\ bank[sel.items[k].id + 1].question = sel.items[k].question
              /\ bank[sel.items[k].id + 1].options = sel.items[k].options
        /\ \A j, k \in 1..Len(sel.items) : sel.items[j].id = sel.items[k].id => j = k

CeilHalf(n) == (n + 1) \div 2
FloorHalf(n) == n \div 2

\* C11: for a bank of every length n, a /questions response holds ceil(n/2)
\* or floor(n/2) items.
C11_HalfSizes ==
    [][\A half \in {"a", "b"} :
          GetQuestions(half)
              => Len(sel'.items) \in {CeilHalf(Len(bank)), FloorHalf(Len(bank))}]_vars

\* a ranking request was answered in this step (the store is as before it)
RankingAnswered(kinds) == board' # board /\ board'.kind \in kinds

\* the Results whose participant exists, each with that participant
Ranked_Results == {x \in [r : results, p : participants] : x.r.participant = x.p.id}

\* entries in non-increasing points and, where the points are equal,
\* non-decreasing avg_time
InRankingOrder(rows) ==
    \A k \in 1..(Len(rows) - 1) :
        /\ rows[k].points >= rows[k + 1].points
        /\ rows[k].points = rows[k + 1].points => rows[k].avg_time <= rows[k + 1].avg_time

\* the entry shows the Result x of participant x.p
Shows(entry, x) ==
    /\ entry.regno = x.p.regno /\ entry.name = x.p.name
    /\ entry.correct = x.r.correct /\ entry.points = x.r.points
    /\ entry.avg_time = Round2(x.r.avg_time)

\* C12: the response of /api/leaderboard holds every Result of an existing
\* participant exactly once, in non-increasing points and, among equal
\* points, non-decreasing avg_time.
C12_RankingOrder ==
    [][(RankingAnswered({"api"}) /\ \E scan \in Scans : LeaderboardApi(scan))
          => LET rows == board'.rows
             IN  /\ Len(rows) = Cardinality(Ranked_Results)
                 /\ \A x \in Ranked_Results :
                       /\ Cardinality({k \in 1..Len(rows) : rows[k].regno = x.p.regno}) = 1
                       /\ \E k \in 1..Len(rows) : Shows(rows[k], x)
                 /\ InRankingOrder(rows)]_vars

\* a response of more than ten entries: the only participant with points,
\* then one without points and a negative average, then the ones at zero
C12_Witness ==
    /\ board.kind = "api" /\ Len(board.rows) > TopLimit
    /\ board.rows[1].points = 2
    /\ board.rows[2].points = 0 /\ board.rows[2].avg_time < 0
    /\ board.rows[3].points = 0 /\ board.rows[3].avg_time = 0

\* x is ranked strictly above y: more points, or equal points and a smaller
\* average time
StrictlyAbove(x, y) ==
    \/ x.r.points > y.r.points
    \/ x.r.points = y.r.points /\ FracLess(x.r.avg_time, y.r.avg_time)

\* C13: /admin/api/top answers min(10, N) entries of the N Results, the export
\* answers all N; both in ranking order, the k-th entry with rank k; no Result
\* that the top view leaves out is ranked strictly above one it shows.
C13_TopTen ==
    [][(/\ RankingAnswered({"top", "csv"})
        /\ IF board'.kind = "top"
           THEN \E scan \in Scans : AdminApiTop(scan)
           ELSE \E scan \in Scans : AdminApiExportLeaderboard(scan))
          => LET rows == board'.rows
                 N == Cardinality(Ranked_Results)
                 shown == {x \in Ranked_Results : \E k \in 1..Len(rows) : Shows(rows[k], x)}
                 regnos == {rows[k].regno : k \in 1..Len(rows)}
             IN  /\ Len(rows) = (IF board'.kind = "top" /\ N > 10 THEN 10 ELSE N)
                 /\ Cardinality(regnos) = Len(rows)
                 /\ {x.p.regno : x \in shown} = regnos
                 /\ InRankingOrder(rows)
                 /\ \A k \in 1..Len(rows) : rows[k].rank = k
                 /\ \A x \in Ranked_Results \ shown : \A y \in shown : ~StrictlyAbove(x, y)]_vars

\* eleven Results: the top view shows ten, first the participant registered
\* last, who alone has points; entries tied on both keys have ranks 9 and 10
C13_Witness ==
    /\ board.kind = "top" /\ Len(board.rows) = 10
    /\ Cardinality(results) > 10
    /\ board.rows[1].regno = "r11" /\ board.rows[1].points = 2 /\ board.rows[1].rank = 1
    /\ board.rows[9].points = board.rows[10].points
    /\ board.rows[9].avg_time = board.rows[10].avg_time
    /\ board.rows[9].rank = 9 /\ board.rows[10].rank = 10

\* an add-question request that the claim calls invalid: the text empty, the
\* options not a list of at least 2 items, or the answer not an integer in
\* [0, len(options))
InvalidAsClaimed(data) ==
    \/ Strip(data.question) = ""
    \/ ~data.options.isList \/ Len(data.options.items) < 2
    \/ ~(data.answer.t = "int" /\ 0 <= data.answer.v /\ data.answer.v < Len(data.options.items))

\* C14: an add-question request with an empty text, with options that are not
\* a list of at least 2 items or with an answer that is not an integer index
\* into the options answers 400 and leaves the bank as it was.
C14_InvalidAddRejected ==
    [][(last'.op = "add" /\ InvalidAsClaimed(last'.req) /\ AddQuestion(last'.req))
          => (last'.status = 400 /\ bank' = bank)]_vars

\* C15: an accepted add-question request on a bank of n entries leaves the n
\* entries as they were, stores the new question at index n with an answer
\* that indexes its options, answers count = n + 1 and changes no row of the
\* store.
C15_AddQuestionFrame ==
    [][(last'.op = "add" /\ last'.status = 200 /\ AddQuestion(last'.req))
          => LET n == Len(bank)
                 data == last'.req
             IN  /\ Len(bank') = n + 1
                 /\ \A k \in 1..n : bank'[k] = bank[k]
                 /\ bank'[n + 1].question = Strip(data.question)
                 /\ bank'[n + 1].options = data.options.items
                 /\ bank'[n + 1].answer = data.answer
                 /\ 0 <= bank'[n + 1].answer.v
                 /\ bank'[n + 1].answer.v < Len(bank'[n + 1].options)
                 /\ admin_api_add_question(bank, data).count = n + 1
                 /\ UNCHANGED Store]_vars

\* a third question appended to the bank of two while a graded Result and its
\* Answer rows are stored
C15_Witness ==
    /\ last.op = "add" /\ last.status = 200
    /\ Len(bank) = 3 /\ bank[1] = Q1 /\ bank[2] = Q2
    /\ bank[3].question = last.req.question /\ bank[3].answer = I(0)
    /\ \E r \in results : r.correct > 0 /\ AnswersOf(DB, r.id) # <<>>

\* no Result without its participant, no Answer row without its Result
NoOrphans(db) ==
    /\ \A r \in db.results : \E p \in db.participants : p.id = r.participant
    /\ \A k \in 1..Len(db.answers) : \E r \in db.results : r.id = db.answers[k].result

\* C16: a successful delete removes the participant, its Result and the
\* Answer rows of that Result and leaves every other row as it was; no later
\* state holds a row of a deleted participant, and every ranking response
\* names only participants that exist when it is answered.
C16_DeleteCascade ==
    [][/\ (last'.op = "delete" /\ last'.status = 200 /\ DeleteParticipant(last'.req))
          => LET p == CHOOSE q \in participants : q.regno = Strip(last'.req.regno)
                 rids == {r.id : r \in {o \in results : o.participant = p.id}}
             IN  /\ \A q \in participants' : q.id # p.id /\ q.regno # p.regno
                 /\ \A r \in results' : r.participant # p.id
                 /\ \A k \in 1..Len(answers') : answers'[k].result \notin rids
                 /\ participants' = participants \ {p}
                 /\ results' = {r \in results : r.participant # p.id}
                 /\ answers' = SelectSeq(answers, LAMBDA a : a.result \notin rids)
       /\ NoOrphans(DB)'
       /\ RankingAnswered({"api", "top", "csv"})
          => \A k \in 1..Len(board'.rows) :
                \E q \in participants : q.regno = board'.rows[k].regno]_vars

\* a participant with a graded Result and Answer rows was deleted while
\* another one keeps a graded Result and Answer rows; the ranking answered
\* after it does not name the deleted participant
C16_Witness ==
    /\ last.op = "delete" /\ last.status = 200 /\ prev.correct > 0
    /\ \E r \in results : r.correct > 0 /\ AnswersOf(DB, r.id) # <<>>
    /\ board.kind = "api" /\ board.rows # <<>>
    /\ \A k \in 1..Len(board.rows) : board.rows[k].regno # Strip(last.req.regno)

\* the banks that hold the texts and options of qs and differ from qs in one
\* stored answer
SameButOneAnswer(qs) ==
    {[qs EXCEPT ![k].answer = a] : k \in 1..Len(qs), a \in {I(0), I(1)}} \ {qs}

\* C17: the items of a /questions response have the fields id, question and
\* options only, and the response is the same for every bank with the same
\* texts and options, whatever answers it stores.
C17_AnswerKeyWithheld ==
    [][\A half \in {"a", "b"} :
          GetQuestions(half)
              => /\ \A k \in 1..Len(sel'.items) :
                       DOMAIN sel'.items[k] = {"id", "question", "options"}
                 /\ \A other \in SameButOneAnswer(bank) :
                       get_questions(other, half) = sel'.items]_vars

NoScore == [correct |-> 0, total_time |-> 0, time_counts |-> 0]

\* the aggregates stored for regno's participant
StoredAggregates(db, regno) ==
    {[correct |-> r.correct, points |-> r.points, avg_time |-> r.avg_time]
        : r \in ResultRowsOf(db, regno)}

\* the batch without its items that have no qId
WithQidOnly(batch) == SelectSeq(batch, LAMBDA ans : ans.qId.t # "missing")

\* the batch with every item that has no qId naming its own 0-based position
WithPositionAsQid(batch) ==
    [k \in 1..Len(batch) |->
        IF batch[k].qId.t = "missing" THEN [batch[k] EXCEPT !.qId = I(k - 1)] ELSE batch[k]]

\* C18 as stated: the items without qId add nothing to the correct count, the
\* time sum and the time count: the grading of a batch is the grading of the
\* batch without them.
C18_MissingQidSkipped ==
    Submitted =>
        LET batch == last.req.answers
        IN  /\ GradeLoop(bank, batch, 0, NoScore) = GradeLoop(bank, WithQidOnly(batch), 0, NoScore)
            /\ StoredAggregates(DB, Strip(last.req.regno)) = {Grade(bank, WithQidOnly(batch))}

\* C18 amended: an item without qId is graded as the item that names its own
\* 0-based position in the batch; it adds nothing when that position is not
\* in the bank or its selected is not a number.
C18_MissingQidIsPosition ==
    Submitted =>
        LET batch == last.req.answers
        IN  /\ GradeLoop(bank, batch, 0, NoScore)
                  = GradeLoop(bank, WithPositionAsQid(batch), 0, NoScore)
            /\ StoredAggregates(DB, Strip(last.req.regno)) = {Grade(bank, WithPositionAsQid(batch))}
            /\ \A k \in 1..Len(batch) :
                  (/\ batch[k].qId.t = "missing"
                   /\ (k - 1 >= Len(bank) \/ IntRaises(DictGet(batch[k].selected, Null))))
                  => GradeItem(bank, batch[k], k - 1, NoScore) = NoScore

\* two items without qId: the first is wrong for question 0, the second right
\* for question 1, and both times are counted
C18_Witness ==
    /\ Submitted /\ last.req.answers = <<A3, A3>> /\ bank = <<Q1, Q2>>
    /\ StoredAggregates(DB, "r1") = {[correct |-> 1, points |-> 2, avg_time |-> Frac(-5, 1)]}

\* the add-question requests answered with success
AddsDone == {t \in Threads : req[t].op = "add" /\ req[t].pc = "done" /\ req[t].status = 200}

\* C19: under every interleaving of the read and write steps of concurrent
\* add-question requests, the question of a completed request stays at the
\* index it was stored at (count - 1 of its response), and the bank of two
\* questions holds 2 + k questions after k successful requests (the file is
\* judged whenever it holds a complete document).
C19_AppendStable ==
    ~torn =>
        /\ \A t \in AddsDone :
              /\ req[t].count <= Len(bank)
              /\ bank[req[t].count].question = Strip(req[t].data.question)
              /\ bank[req[t].count].options = req[t].data.options.items
              /\ bank[req[t].count].answer = req[t].data.answer
        /\ Len(bank) = Len(<<Q1, Q2>>) + Cardinality(AddsDone)

\* the submit requests answered with success
SubmitsDone == {t \in Threads : req[t].op = "submit" /\ req[t].pc = "done" /\ req[t].status = 200}

\* C20: when two concurrent submit requests of the same participant are both
\* answered, the Answer rows and the aggregates of the Result are those that
\* one of the two batches, submitted alone, produces.
C20_ConcurrentSubmit ==
    \A t, u \in SubmitsDone :
        (t # u /\ Strip(req[t].data.regno) = Strip(req[u].data.regno))
        => \E w \in {t, u} :
              LET regno == Strip(req[w].data.regno)
                  alone == submit_quiz(WithoutResult(DB, regno), bank, req[w].data).db
              IN  Outcome(DB, regno) = Outcome(alone, regno)

\* the rows of the participant holding regno, its Result and its Answer rows
RowsOf(db, regno) ==
    [participants |-> ParticipantsByRegno(db, regno),
     results |-> ResultRowsOf(db, regno),
     answers |-> AnswerRowsOf(db, regno)]

\* no row is left of those the store held for regno before the deletes
AllGone(db, regno) ==
    LET was == RowsOf(SubmittedStore, regno)
    IN  /\ db.participants \cap was.participants = {}
        /\ db.results \cap was.results = {}
        /\ \A k \in 1..Len(db.answers) : \A r \in was.results : db.answers[k].result # r.id

\* C21: in every state reached while or after delete-participant requests
\* run, a step that fails with 500 included, each participant is in the store
\* with its Result and all its Answer rows, or none of these rows is.
C21_DeleteAllOrNothing ==
    \A regno \in {"r1", "r2"} :
        RowsOf(DB, regno) = RowsOf(SubmittedStore, regno) \/ AllGone(DB, regno)

\* the submit request of thread t has read the bank and graded its batch
Graded(t) ==
    /\ req[t].op = "submit"
    /\ \/ req[t].pc \in {"submit_upsert", "submit_delete", "submit_insert"}
       \/ req[t].pc = "done" /\ req[t].status = 200

\* C22: a submit reads the bank in one step, at which the file holds a
\* complete document, and that document is the value it grades with: the
\* correct count is the number of items in range of that value whose selected
\* equals the answer that value stores; the value is not read again, and the
\* Result saved holds the aggregates graded with it.
C22_BankSnapshot ==
    [][\A t \in Threads :
          /\ (req[t].pc = "submit_load" /\ req'[t].pc = "submit_upsert")
                => (~torn /\ req'[t].questions = bank)
          /\ Graded(t)'
                => LET counted == Cardinality(CountedWithFallback(req'[t].questions,
                                                                  req'[t].data.answers))
                   IN  /\ req'[t].agg.correct = counted
                       /\ req'[t].agg.points = 2 * counted
          /\ (Graded(t) /\ Graded(t)')
                => (req'[t].questions = req[t].questions /\ req'[t].agg = req[t].agg)
          /\ (req[t].pc = "submit_upsert" /\ req'[t].pc = "submit_delete")
                => \E r \in results' :
                      /\ r.id = req'[t].rid /\ r.participant = req[t].pid
                      /\ r.correct = req[t].agg.correct /\ r.avg_time = req[t].agg.avg_time]_vars

\* a submission answered with success that read the bank of three questions
\* an add-question request had just written, and counted the third question
C22_Witness ==
    \E t, u \in Threads :
        /\ req[t].op = "submit" /\ req[t].pc = "done" /\ req[t].status = 200
        /\ req[t].data.answers = <<A1, A7>>
        /\ Len(req[t].questions) = 3 /\ req[t].agg.correct = 2
        /\ req[u].op = "add" /\ req[u].pc = "done" /\ req[u].status = 200
        /\ \E r \in results : r.correct = 2

\* the items of a batch that are not skipped, as the claim describes them: a
\* qId that is a number in [0, bank length) and a selected that is a number
NotSkippedAsClaimed(questions, batch) ==
    {k \in 1..Len(batch) :
        /\ ~IntRaises(batch[k].qId)
        /\ 0 <= IntOf(batch[k].qId) /\ IntOf(batch[k].qId) < Len(questions)
        /\ ~IntRaises(batch[k].selected)}

\* the same with an item that has no qId read as naming its 0-based position
NotSkippedWithFallback(questions, batch) ==
    {k \in 1..Len(batch) :
        LET qid == IF batch[k].qId.t = "missing" THEN I(k - 1) ELSE batch[k].qId
        IN  /\ ~IntRaises(qid)
            /\ 0 <= IntOf(qid) /\ IntOf(qid) < Len(questions)
            /\ ~IntRaises(batch[k].selected)}

\* twice the sum of the times of the items at positions ks
RECURSIVE TwiceTimeSum(_, _)
TwiceTimeSum(batch, ks) ==
    IF ks = {} THEN 0
    ELSE LET k == CHOOSE j \in ks : TRUE
         IN  Twice(batch[k].time_sec) + TwiceTimeSum(batch, ks \ {k})

\* the mean of the times of the items at positions ks, 0 when there is none
MeanTime(batch, ks) ==
    IF ks = {} THEN Zero ELSE Frac(TwiceTimeSum(batch, ks), 2 * Cardinality(ks))

\* the avg_time stored for regno's participant is exactly avg
StoredAvgTimeIs(regno, avg) ==
    /\ ResultRowsOf(DB, regno) # {}
    /\ \A r \in ResultRowsOf(DB, regno) : r.avg_time = avg

\* a time that is numeric: a JSON number, or JSON true / false, which are the
\* integers 1 / 0 to isinstance(x, (int, float))
NumericTime(val) == val.t \in {"int", "float", "bool"}

\* C23 as stated: after a successful submit avg_time is the sum of the times
\* divided by their number, over the items with a numeric in-range qId, a
\* numeric selected and a numeric time; 0 when there is no such item.
C23_AvgTimeAsClaimed ==
    Submitted =>
        LET batch == last.req.answers
            timed == {k \in NotSkippedAsClaimed(bank, batch) : NumericTime(batch[k].time_sec)}
        IN  StoredAvgTimeIs(Strip(last.req.regno), MeanTime(batch, timed))

\* C23 amended: the same mean, where an item without qId stands for the
\* question at its own 0-based position in the batch.
C23_AvgTime ==
    Submitted =>
        LET batch == last.req.answers
            timed == {k \in NotSkippedWithFallback(bank, batch) : NumericTime(batch[k].time_sec)}
        IN  StoredAvgTimeIs(Strip(last.req.regno), MeanTime(batch, timed))

\* a skipped item with a time of 10 s next to a counted item of 2.5 s: the
\* average is 2.5
C23_Witness ==
    /\ Submitted /\ last.req.answers = <<A5, A8>> /\ bank = <<Q1, Q2>>
    /\ StoredAvgTimeIs("r1", Frac(5, 2))

\* C24: every stored Result has correct >= 0 and avg_time >= 0, whatever
\* times the submitted batches carry.
C24_NonNegative ==
    \A r \in results : r.correct >= 0 /\ r.avg_time.n >= 0

\* no request is in flight
Quiescent == \A t \in Threads : req[t].pc \in {"idle", "done"}

ResultsOfOthers(db, pid) == {r \in db.results : r.participant # pid}
AnswersOfOthers(db, pid) ==
    SelectSeq(db.answers, LAMBDA a : \A r \in db.results : r.participant = pid => a.result # r.id)

\* C26: a successful submit for a participant leaves every Participant row,
\* the Results and the Answer rows of the other participants and the bank as
\* they were; the name sent in the payload is not stored.
C26_SubmitFrame ==
    [][(last'.op = "submit" /\ last'.status = 200 /\ SubmitQuiz(last'.req))
          => LET p == CHOOSE q \in participants : q.regno = Strip(last'.req.regno)
             IN  /\ participants' = participants
                 /\ nextPid' = nextPid
                 /\ p \in participants'
                 /\ ResultsOfOthers(DB', p.id) = ResultsOfOthers(DB, p.id)
                 /\ AnswersOfOthers(DB', p.id) = AnswersOfOthers(DB, p.id)
                 /\ bank' = bank]_vars

\* a batch submitted with success by one participant while another holds a
\* graded Result and Answer rows and the bank holds a third question
C26_Witness ==
    /\ Submitted /\ last.req.answers # <<>> /\ Len(bank) = 3
    /\ \E p, q \in participants :
          /\ p.regno = Strip(last.req.regno) /\ p.name # last.req.name
          /\ q # p
          /\ \E r \in ResultsOf(DB, q.id) : r.correct > 0 /\ AnswersOf(DB, r.id) # <<>>
          /\ \E r \in ResultsOf(DB, p.id) : Len(AnswersOf(DB, r.id)) = Len(last.req.answers)

\* C27: after a successful submit the stored correct count is at most the
\* length of the bank the batch was graded with, and points at most twice
\* that length, also for a batch that names a question several times.
C27_CountedOnce ==
    Submitted =>
        \A r \in ResultRowsOf(DB, Strip(last.req.regno)) :
            r.correct <= Len(bank) /\ r.points <= 2 * Len(bank)

====
